---- MODULE Spec2Model ----
(***************************************************************************)
(* A model of training/gather_data.py: the Sparse Timeline Reader          *)
(* (_read_file), the Bucketed-Count Expander (weighted_iter), the Stream    *)
(* Reconciler (_cmd_frame_iter) and the Label Bucketer (DataWriteHelper,   *)
(* _process_files, main).                                                  *)
(*                                                                         *)
(* A Python str is modelled as the sequence of its characters, each a      *)
(* one-character TLA+ string, so that splitting, comparing and parsing     *)
(* are computed as the interpreter computes them.  A Python float is       *)
(* modelled exactly, as its whole part and its fractional digits.          *)
(***************************************************************************)
EXTENDS Integers, Sequences, FiniteSets, TLC

VARIABLES
    \* ---- _cmd_frame_iter (lines 191-238) ----
    frames,       \* the `frames` iterator: a sequence of <<t, x>>
    cmds,         \* the `cmds` iterator: a sequence of <<t, c, l, r>>
    fpos,         \* number of elements already taken from `frames`
    cpos,         \* number of elements already taken from `cmds`
    frame_time, frame,                       \* locals of line 221
    cmd_time, cmd, left_speed, right_speed,  \* locals of line 223
    read_frame, read_cmd,                    \* locals of line 218
    out,          \* the samples yielded so far
    cfi_pc,       \* "read" (line 220), "cmp" (line 225), "done", "raised",
                  \* "idle"
    \* ---- _read_file (lines 241-259) ----
    lines,        \* the lines of the file, in file order
    value_mapper, \* "identity" (line 241) or "sync" (line 160)
    lpos,         \* number of lines already read
    retmap,       \* the dict of line 248
    yielded,      \* the tuples yielded so far
    rf_pc,        \* "loop" (line 250), "yield" (line 258), "done", "idle"
    \* ---- weighted_iter (lines 263-267) ----
    buckets,      \* the (key, count) items `buckets` has delivered so far
    bpos,         \* number of items already taken from `buckets`
    key, count,   \* loop variables of line 265
    xr,           \* number of values the xrange of line 266 has produced
    ticks,        \* the keys yielded so far
    wi_pc,        \* "for" (line 265), "inner" (line 266), "done", "idle"
    \* ---- the output directory (lines 132-148) ----
    bucket_kind,  \* per command code: "absent", "dir" or "file"
    images,       \* per command code: the image files, name -> content
    speeds_txt,   \* per command code: the lines of speeds.txt
    \* ---- DataWriteHelper and _process_files (lines 130-177) ----
    next_idx,     \* per command code: self._next_idx
    speedsfile,   \* per command code: "none", "open" or "closed"
    nopened,      \* number of helpers line 164 has constructed
    nwritten,     \* number of samples of `out` the loop of line 168 has written
    pf_pc,        \* "open" (164), "loop" (168), "midwrite" (146),
                  \* "returned", "raised", "idle"
    assigned,     \* per command code: the indices given to written images
    \* ---- main and _process_tagdir (lines 85-117) ----
    sessions,     \* the sessions of the input directory, in listing order
    sidx,         \* number of sessions started in this run
    run,          \* number of the run of the program
    main_pc       \* "run", "returned0", "raised", "killed", "idle"

cfiVars == <<frames, cmds, fpos, cpos, frame_time, frame, cmd_time, cmd,
             left_speed, right_speed, read_frame, read_cmd, out, cfi_pc>>
rfVars == <<lines, value_mapper, lpos, retmap, yielded, rf_pc>>
wiVars == <<buckets, bpos, key, count, xr, ticks, wi_pc>>
diskVars == <<bucket_kind, images, speeds_txt>>
pfVars == <<next_idx, speedsfile, nopened, nwritten, pf_pc, assigned>>
mainVars == <<sessions, sidx, run, main_pc>>
vars == <<cfiVars, rfVars, wiVars, diskVars, pfVars, mainVars>>

----------------------------------------------------------------------------
(* Bounds of the model. *)

MaxTick == 2      \* reconciler ticks are drawn from 0..MaxTick
MaxFrames == 4    \* longest frame stream fed to the reconciler
MaxLines == 3     \* longest file given to the reader
MaxBuckets == 3   \* longest bucket list given to the expander on its own
MaxCount == 3     \* largest count of a bucket
MaxSessions == 3  \* most sessions in the input directory
MaxRuns == 2      \* most runs of the program on one output directory

----------------------------------------------------------------------------
(* Python values. *)

None == "None"

Digits == <<"0", "1", "2", "3", "4", "5", "6", "7", "8", "9">>

IsDigit(c) == \E d \in 1..10 : Digits[d] = c

DigitVal(c) == (CHOOSE d \in 1..10 : Digits[d] = c) - 1

\* ord(c) for the characters the model's files are written in.
Ord(c) ==
    CASE c = "\n" -> 10
      [] c = ","  -> 44
      [] c = "."  -> 46
      [] IsDigit(c) -> 48 + DigitVal(c)
      [] c = "X"  -> 88
      [] c = "Y"  -> 89
      [] c = "a"  -> 97
      [] c = "b"  -> 98
      [] c = "c"  -> 99

\* a < b for two Python 2 str values: bytewise, a proper prefix is smaller.
RECURSIVE StrLess(_, _)
StrLess(a, b) ==
    IF b = <<>> THEN FALSE
    ELSE IF a = <<>> THEN TRUE
    ELSE IF Ord(Head(a)) # Ord(Head(b)) THEN Ord(Head(a)) < Ord(Head(b))
    ELSE StrLess(Tail(a), Tail(b))

\* The value of a run of decimal digits.
RECURSIVE DecVal(_)
DecVal(ds) ==
    IF ds = <<>> THEN 0
    ELSE DecVal(SubSeq(ds, 1, Len(ds) - 1)) * 10 + DigitVal(ds[Len(ds)])

\* Index of the first "." of s, or Len(s) + 1.
DotAt(s) ==
    IF \E i \in 1..Len(s) : s[i] = "."
    THEN CHOOSE i \in 1..Len(s) : s[i] = "." /\ \A j \in 1..(i - 1) : s[j] # "."
    ELSE Len(s) + 1

RECURSIVE StripZeros(_)
StripZeros(ds) ==
    IF ds # <<>> /\ ds[Len(ds)] = "0"
    THEN StripZeros(SubSeq(ds, 1, Len(ds) - 1))
    ELSE ds

\* float(s) for an unsigned decimal literal s ("12", "1.0", "2.5").
Float(s) ==
    [whole |-> DecVal(SubSeq(s, 1, DotAt(s) - 1)),
     frac  |-> StripZeros(SubSeq(s, DotAt(s) + 1, Len(s)))]

\* int(x) for a non-negative float x: truncation.
IntOfFloat(x) == x.whole

\* float(s) accepts an unsigned decimal literal: digits, at most one ".".
IsFloatLiteral(s) ==
    /\ \E i \in 1..Len(s) : IsDigit(s[i])
    /\ \A i \in 1..Len(s) : IsDigit(s[i]) \/ s[i] = "."
    /\ \A i \in 1..Len(s) : \A j \in (i + 1)..Len(s) : ~(s[i] = "." /\ s[j] = ".")

\* int(s) accepts digits only.
IsIntLiteral(s) == s # <<>> /\ \A i \in 1..Len(s) : IsDigit(s[i])

Int_(s) == DecVal(s)

----------------------------------------------------------------------------
(* Inputs. *)

\* str(n) for 0 <= n < 100.
Str(n) == IF n < 10 THEN <<Digits[n + 1]>>
          ELSE <<Digits[(n \div 10) + 1], Digits[(n % 10) + 1]>>

\* sorted(S) for a set S of distinct str values.
RECURSIVE SortedKeys(_)
SortedKeys(S) ==
    IF S = {} THEN <<>>
    ELSE LET m == CHOOSE k \in S : \A j \in S \ {k} : StrLess(k, j)
         IN  <<m>> \o SortedKeys(S \ {m})

\* Tick keys of the streams given to the reconciler: the integers 0..MaxTick
\* and one fractional key.
TickKeys == {Str(n) : n \in 0..MaxTick} \cup {<<"1", ".", "5">>}

\* The (command, left speed, right speed) fields of a command line.
CmdPayloads == {<<"X", <<"1">>, <<"2">>>>, <<"Y", <<"3">>, <<"4">>>>}

\* Placeholders for locals that are unbound until their first assignment;
\* the code never reads them before it assigns them.
NoTime == -1
NoFrame == 0

cfiIdle ==
    /\ frames = <<>> /\ cmds = <<>> /\ fpos = 0 /\ cpos = 0
    /\ frame_time = NoTime /\ frame = NoFrame
    /\ cmd_time = NoTime /\ cmd = None
    /\ left_speed = Float(<<"0">>) /\ right_speed = Float(<<"0">>)
    /\ read_frame = TRUE /\ read_cmd = TRUE
    /\ out = <<>> /\ cfi_pc = "idle"

rfIdle ==
    /\ lines = <<>> /\ value_mapper = "identity" /\ lpos = 0
    /\ retmap = <<>> /\ yielded = <<>> /\ rf_pc = "idle"

wiIdle ==
    /\ buckets = <<>> /\ bpos = 0 /\ key = <<>> /\ count = 0 /\ xr = 0
    /\ ticks = <<>> /\ wi_pc = "idle"

\* command_mapping of the module `common`: the command labels and their
\* codes, None (no command) having the no-op code 0.
command_mapping == (None :> 0) @@ ("X" :> 1) @@ ("Y" :> 2)

\* range(len(command_mapping)), line 165.
Codes == 0..(Cardinality(DOMAIN command_mapping) - 1)

mainIdle ==
    /\ bucket_kind = [c \in Codes |-> "absent"]
    /\ images = [c \in Codes |-> <<>>]
    /\ speeds_txt = [c \in Codes |-> <<>>]
    /\ next_idx = [c \in Codes |-> 0]
    /\ speedsfile = [c \in Codes |-> "none"]
    /\ nopened = 0 /\ nwritten = 0 /\ pf_pc = "idle"
    /\ assigned = [c \in Codes |-> <<>>]
    /\ sessions = <<>> /\ sidx = 0 /\ run = 0 /\ main_pc = "idle"

----------------------------------------------------------------------------
(* _cmd_frame_iter, lines 191-238.                                         *)
(* The streams it is given in _process_files are what _read_file yields:   *)
(* keys in ascending str order, distinct for the commands, repeated by     *)
(* weighted_iter for the frames.  The i-th frame of the video is image i.  *)

InitReconciler ==
    /\ \E n \in 0..MaxFrames : \E ks \in [1..n -> TickKeys] :
          /\ \A i \in 1..n : \A j \in (i + 1)..n : ~StrLess(ks[j], ks[i])
          /\ frames = [i \in 1..n |-> <<ks[i], i>>]
    /\ \E S \in SUBSET TickKeys : \E p \in [S -> CmdPayloads] :
          cmds = [i \in 1..Cardinality(S) |->
                    <<SortedKeys(S)[i]>> \o p[SortedKeys(S)[i]]]
    /\ fpos = 0 /\ cpos = 0
    /\ frame_time = NoTime /\ frame = NoFrame
    /\ cmd_time = NoTime /\ cmd = None
    /\ left_speed = Float(<<"0">>) /\ right_speed = Float(<<"0">>)
    /\ read_frame = TRUE /\ read_cmd = TRUE      \* line 218
    /\ out = <<>>
    /\ cfi_pc = "read"
    /\ rfIdle /\ wiIdle /\ mainIdle

\* _next_frame, lines 209-211, applied to the next element of `frames`.
_next_frame == <<IntOfFloat(Float(frames[fpos + 1][1])), frames[fpos + 1][2]>>

\* _next_cmd, lines 213-215, applied to the next element of `cmds`.
_next_cmd == <<IntOfFloat(Float(cmds[cpos + 1][1])), cmds[cpos + 1][2],
               Float(cmds[cpos + 1][3]), Float(cmds[cpos + 1][4])>>

\* float(t) of line 211 raises ValueError for the next frame.
FrameReadRaises ==
    /\ read_frame /\ fpos < Len(frames)
    /\ ~IsFloatLiteral(frames[fpos + 1][1])

\* float(t), float(l) or float(r) of line 215 raises ValueError for the next
\* command.
CmdReadRaises ==
    /\ read_cmd /\ cpos < Len(cmds)
    /\ \E k \in {1, 3, 4} : ~IsFloatLiteral(cmds[cpos + 1][k])

\* Lines 220-221: the frame is read when read_frame is set.
TakeFrame ==
    IF read_frame
    THEN /\ fpos' = fpos + 1
         /\ frame_time' = _next_frame[1]
         /\ frame' = _next_frame[2]
    ELSE UNCHANGED <<fpos, frame_time, frame>>

\* Lines 222-223: the command is read when read_cmd is set.
TakeCmd ==
    IF read_cmd
    THEN /\ cpos' = cpos + 1
         /\ cmd_time' = _next_cmd[1]
         /\ cmd' = _next_cmd[2]
         /\ left_speed' = _next_cmd[3]
         /\ right_speed' = _next_cmd[4]
    ELSE UNCHANGED <<cpos, cmd_time, cmd, left_speed, right_speed>>

\* Line 221: next(frames) raises StopIteration, which ends the generator.
FramesExhausted ==
    /\ cfi_pc = "read"
    /\ read_frame /\ fpos = Len(frames)
    /\ cfi_pc' = "done"
    /\ UNCHANGED <<frames, cmds, fpos, cpos, frame_time, frame, cmd_time, cmd,
                   left_speed, right_speed, read_frame, read_cmd, out>>
    /\ UNCHANGED <<rfVars, wiVars, diskVars, pfVars, mainVars>>

\* CmdsExhausted that goes on to the loop of lines 237-238.
CmdsExhausted_Fallback ==
    /\ cfi_pc = "read"
    /\ read_frame => fpos < Len(frames)
    /\ read_cmd /\ cpos = Len(cmds)
    /\ frame_time' = IF read_frame THEN _next_frame[1] ELSE frame_time
    /\ frame' = IF read_frame THEN _next_frame[2] ELSE frame
    /\ fpos' = Len(frames)
    /\ out' = out \o [i \in 1..(Len(frames) - fpos') |->
                        <<frames[fpos' + i][2], None, left_speed, right_speed>>]
    /\ cfi_pc' = "done"
    /\ UNCHANGED <<frames, cmds, cpos, cmd_time, cmd, left_speed, right_speed,
                   read_frame, read_cmd>>
    /\ UNCHANGED <<rfVars, wiVars, diskVars, pfVars, mainVars>>

\* Line 223: next(cmds) raises StopIteration, after line 221 has run.
CmdsExhausted ==
    /\ cfi_pc = "read"
    /\ read_frame => fpos < Len(frames)
    /\ ~FrameReadRaises
    /\ read_cmd /\ cpos = Len(cmds)
    /\ TakeFrame
    /\ cfi_pc' = "done"
    /\ UNCHANGED <<frames, cmds, cpos, cmd_time, cmd, left_speed, right_speed,
                   read_frame, read_cmd, out>>
    /\ UNCHANGED <<rfVars, wiVars, diskVars, pfVars, mainVars>>

\* Lines 220-223 when both reads succeed.
ReadPending ==
    /\ cfi_pc = "read"
    /\ read_frame => fpos < Len(frames)
    /\ read_cmd => cpos < Len(cmds)
    /\ ~FrameReadRaises /\ ~CmdReadRaises
    /\ TakeFrame
    /\ TakeCmd
    /\ cfi_pc' = "cmp"
    /\ UNCHANGED <<frames, cmds, read_frame, read_cmd, out>>
    /\ UNCHANGED <<rfVars, wiVars, diskVars, pfVars, mainVars>>

\* DropCommand with the frame read again on the next pass.
DropCommand_Rereads ==
    /\ cfi_pc = "cmp"
    /\ cmd_time < frame_time
    /\ read_cmd' = TRUE /\ read_frame' = TRUE
    /\ cfi_pc' = "read"
    /\ UNCHANGED <<frames, cmds, fpos, cpos, frame_time, frame, cmd_time, cmd,
                   left_speed, right_speed, out>>
    /\ UNCHANGED <<rfVars, wiVars, diskVars, pfVars, mainVars>>

\* DropCommand that also emits the pending frame.
DropCommand_Yields ==
    /\ cfi_pc = "cmp"
    /\ cmd_time < frame_time
    /\ read_cmd' = TRUE /\ read_frame' = FALSE
    /\ out' = Append(out, <<frame, None, left_speed, right_speed>>)
    /\ cfi_pc' = "read"
    /\ UNCHANGED <<frames, cmds, fpos, cpos, frame_time, frame, cmd_time, cmd,
                   left_speed, right_speed>>
    /\ UNCHANGED <<rfVars, wiVars, diskVars, pfVars, mainVars>>

\* DropCommand that asks for no read at all.
DropCommand_NoAdvance ==
    /\ cfi_pc = "cmp"
    /\ cmd_time < frame_time
    /\ read_cmd' = FALSE /\ read_frame' = FALSE
    /\ cfi_pc' = "read"
    /\ UNCHANGED <<frames, cmds, fpos, cpos, frame_time, frame, cmd_time, cmd,
                   left_speed, right_speed, out>>
    /\ UNCHANGED <<rfVars, wiVars, diskVars, pfVars, mainVars>>

\* Lines 221 and 223: a tick or a speed is not a number; the ValueError of
\* float() leaves the generator, after line 221 has run if the frame was
\* read.
ReadRaises ==
    /\ cfi_pc = "read"
    /\ read_frame => fpos < Len(frames)
    /\ IF FrameReadRaises
       THEN UNCHANGED <<fpos, frame_time, frame>>
       ELSE CmdReadRaises /\ TakeFrame
    /\ cfi_pc' = "raised"
    /\ UNCHANGED <<frames, cmds, cpos, cmd_time, cmd, left_speed, right_speed,
                   read_frame, read_cmd, out>>
    /\ UNCHANGED <<rfVars, wiVars, diskVars, pfVars, mainVars>>

\* Lines 225-228: drop this command.
DropCommand ==
    /\ cfi_pc = "cmp"
    /\ cmd_time < frame_time
    /\ read_cmd' = TRUE /\ read_frame' = FALSE
    /\ cfi_pc' = "read"
    /\ UNCHANGED <<frames, cmds, fpos, cpos, frame_time, frame, cmd_time, cmd,
                   left_speed, right_speed, out>>
    /\ UNCHANGED <<rfVars, wiVars, diskVars, pfVars, mainVars>>

\* Lines 229-232: no command for this frame.
YieldNoCommand ==
    /\ cfi_pc = "cmp"
    /\ cmd_time > frame_time
    /\ read_cmd' = FALSE /\ read_frame' = TRUE
    /\ out' = Append(out, <<frame, None, left_speed, right_speed>>)
    /\ cfi_pc' = "read"
    /\ UNCHANGED <<frames, cmds, fpos, cpos, frame_time, frame, cmd_time, cmd,
                   left_speed, right_speed>>
    /\ UNCHANGED <<rfVars, wiVars, diskVars, pfVars, mainVars>>

\* YieldCommand that keeps the command pending.
YieldCommand_KeepsCmd ==
    /\ cfi_pc = "cmp"
    /\ ~(cmd_time < frame_time) /\ ~(cmd_time > frame_time)
    /\ read_frame' = TRUE /\ read_cmd' = FALSE
    /\ out' = Append(out, <<frame, cmd, left_speed, right_speed>>)
    /\ cfi_pc' = "read"
    /\ UNCHANGED <<frames, cmds, fpos, cpos, frame_time, frame, cmd_time, cmd,
                   left_speed, right_speed>>
    /\ UNCHANGED <<rfVars, wiVars, diskVars, pfVars, mainVars>>

\* Lines 233-235: the command of this frame's tick.
YieldCommand ==
    /\ cfi_pc = "cmp"
    /\ ~(cmd_time < frame_time) /\ ~(cmd_time > frame_time)
    /\ read_frame' = TRUE /\ read_cmd' = TRUE
    /\ out' = Append(out, <<frame, cmd, left_speed, right_speed>>)
    /\ cfi_pc' = "read"
    /\ UNCHANGED <<frames, cmds, fpos, cpos, frame_time, frame, cmd_time, cmd,
                   left_speed, right_speed>>
    /\ UNCHANGED <<rfVars, wiVars, diskVars, pfVars, mainVars>>

\* The loop of lines 237-238 follows a `while True` that no `break` leaves:
\* control never reaches it, so it has no action.
NextReconciler ==
    \/ FramesExhausted
    \/ CmdsExhausted
    \/ ReadPending
    \/ DropCommand
    \/ YieldNoCommand
    \/ YieldCommand

SpecReconciler == InitReconciler /\ [][NextReconciler]_vars

\* The generator is driven by the for loop of line 168, which asks for the
\* next sample until the generator ends.
SpecReconcilerFair == SpecReconciler /\ WF_vars(NextReconciler)

----------------------------------------------------------------------------
(* Properties of the Stream Reconciler. *)

\* The integer ticks the reconciler compares.
FrameTick(i) == IntOfFloat(Float(frames[i][1]))
CmdTick(j) == IntOfFloat(Float(cmds[j][1]))

\* Frame ticks non-decreasing, command ticks strictly ascending.
WellFormed ==
    /\ \A i \in 1..Len(frames) : \A j \in (i + 1)..Len(frames) :
          FrameTick(i) <= FrameTick(j)
    /\ \A i \in 1..Len(cmds) : \A j \in (i + 1)..Len(cmds) :
          CmdTick(i) < CmdTick(j)

\* The commands whose tick is at or before tick t, and the last of them.
CmdsUpTo(t) == {j \in 1..Len(cmds) : CmdTick(j) <= t}
LastCmdUpTo(t) == CHOOSE j \in CmdsUpTo(t) : \A k \in CmdsUpTo(t) : k <= j

\* The streams of the example: frame ticks [0,0,1,2] and commands
\* [(0,"X",1,2),(2,"Y",3,4)].
ExampleStreams ==
    /\ frames = <<<<Str(0), 1>>, <<Str(0), 2>>, <<Str(1), 3>>, <<Str(2), 4>>>>
    /\ cmds = <<<<Str(0), "X", Str(1), Str(2)>>, <<Str(2), "Y", Str(3), Str(4)>>>>

\* C1: for well-formed streams the reconciler emits exactly one sample per
\* input frame: when it has ended, the number of samples is the length of
\* the frame stream, whatever the length of the command stream.
C1_OneSamplePerFrame ==
    (cfi_pc = "done" /\ WellFormed) => Len(out) = Len(frames)

\* C2: a sample emitted with command None carries the speeds of the last
\* command whose tick is at or before the frame's tick, and the example
\* streams give [(f0,"X",1,2),(f0,None,1,2),(f1,None,1,2),(f2,"Y",3,4)].
C2_CarriedTelemetry ==
    /\ WellFormed =>
         \A i \in 1..Len(out) :
            (out[i][2] = None /\ CmdsUpTo(FrameTick(out[i][1])) # {}) =>
               LET j == LastCmdUpTo(FrameTick(out[i][1]))
               IN  /\ out[i][3] = Float(cmds[j][3])
                   /\ out[i][4] = Float(cmds[j][4])
    /\ (ExampleStreams /\ cfi_pc = "done") =>
         out = <<<<1, "X", Float(Str(1)), Float(Str(2))>>,
                 <<2, None, Float(Str(1)), Float(Str(2))>>,
                 <<3, None, Float(Str(1)), Float(Str(2))>>,
                 <<4, "Y", Float(Str(3)), Float(Str(4))>>>>

\* C3: the i-th emitted sample carries the image of the i-th input frame, and
\* no image appears in two samples.
C3_FrameOrder ==
    /\ Len(out) <= Len(frames)
    /\ \A i \in 1..Len(out) : out[i][1] = frames[i][2]
    /\ \A i \in 1..Len(out) : \A j \in 1..Len(out) :
          i # j => out[i][1] # out[j][1]

C3_Witness ==
    /\ cfi_pc = "done"
    /\ Len(out) >= 3
    /\ cpos > Len(out)
    /\ \E i \in 1..Len(out) : out[i][2] = None
    /\ \E i \in 1..Len(out) : out[i][2] # None

\* C4: a sample with a command other than None is emitted only when the
\* pending command tick equals the pending frame tick; it carries the image
\* of the pending frame and the label and speeds of the pending command; and
\* after it both streams are read again, each advancing by one element.
C4_MatchOnly ==
    [][ /\ (Len(out') = Len(out) + 1 /\ out'[Len(out')][2] # None) =>
            /\ cfi_pc = "cmp"
            /\ fpos > 0 /\ cpos > 0
            /\ frame_time = FrameTick(fpos) /\ cmd_time = CmdTick(cpos)
            /\ cmd_time = frame_time
            /\ out'[Len(out')] = <<frames[fpos][2], cmds[cpos][2],
                                   Float(cmds[cpos][3]), Float(cmds[cpos][4])>>
            /\ read_frame' /\ read_cmd'
        /\ (/\ cfi_pc = "read" /\ read_frame /\ read_cmd
            /\ fpos < Len(frames) /\ cpos < Len(cmds)) =>
              (fpos' = fpos + 1 /\ cpos' = cpos + 1)
      ]_vars

C4_Witness ==
    /\ Len(out) >= 2
    /\ out[Len(out) - 1][2] # None
    /\ out[Len(out)][2] # None
    /\ fpos >= 2 /\ cpos >= 2

\* C5: when the pending command tick is less than the pending frame tick,
\* nothing is emitted, the pending frame is kept, and the next read takes one
\* command and no frame.
C5_StaleCommand ==
    [][ /\ (cfi_pc = "cmp" /\ cmd_time < frame_time) =>
            /\ out' = out
            /\ fpos' = fpos /\ cpos' = cpos
            /\ frame' = frame /\ frame_time' = frame_time
            /\ ~read_frame' /\ read_cmd'
            /\ cfi_pc' = "read"
        /\ (cfi_pc = "read" /\ ~read_frame) =>
            /\ out' = out
            /\ fpos' = fpos /\ frame' = frame /\ frame_time' = frame_time
            /\ cpos < Len(cmds) => cpos' = cpos + 1
      ]_vars

C5_Witness ==
    /\ cfi_pc = "cmp"
    /\ ~read_frame
    /\ cpos >= 2
    /\ frame = frames[fpos][2]
    /\ Len(out) >= 1

\* C6: the reconciler terminates: every pass of the loop that does not end it
\* takes at least one element from one of the streams, and when the frame
\* stream is exhausted it ends, emitting nothing more and leaving the
\* remaining commands unread.
C6_Terminates ==
    /\ <>[](cfi_pc = "done")
    /\ [][ /\ (cfi_pc = "read" /\ cfi_pc' = "cmp") =>
                fpos' + cpos' > fpos + cpos
           /\ (cfi_pc = "read" /\ read_frame /\ fpos = Len(frames)) =>
                (cfi_pc' = "done" /\ out' = out /\ cpos' = cpos)
           /\ cfi_pc # "done"
         ]_vars

C6_Witness ==
    /\ cfi_pc = "done"
    /\ fpos = Len(frames)
    /\ cpos < Len(cmds)
    /\ Len(out) >= 2

----------------------------------------------------------------------------
(* _read_file, lines 241-259.                                              *)
(* A file is the sequence of its lines, each ending in a newline.          *)

Line(k, v) == k \o <<",">> \o v \o <<"\n">>

\* Files read with the default value_mapper: keys of one and two digits and
\* a key with a fraction; a file may also hold an empty line.
PlainKeys == {Str(1), Str(5), Str(10), <<"1", ".", "0">>}
PlainVals == {<<"a">>, <<"b">>, <<"c">>}
PlainLines == {Line(k, v) : k \in PlainKeys, v \in PlainVals} \cup {<<"\n">>}

\* sync.txt: integer keys of one and two digits, and frame counts, one of
\* them not a number.
SyncKeys == {Str(1), Str(9), Str(10)}
SyncVals == {Str(0), Str(MaxCount), <<"a">>}
SyncLines == {Line(k, v) : k \in SyncKeys, v \in SyncVals} \cup {<<"\n">>}

IsSpace(c) == c \in {" ", "\n", "\t", "\r"}

\* s.strip()
RECURSIVE Strip(_)
Strip(s) ==
    IF s = <<>> THEN s
    ELSE IF IsSpace(Head(s)) THEN Strip(Tail(s))
    ELSE IF IsSpace(s[Len(s)]) THEN Strip(SubSeq(s, 1, Len(s) - 1))
    ELSE s

\* s.split(","): the fields between the commas; "" gives [""].
RECURSIVE Split(_)
Split(s) ==
    IF \E i \in 1..Len(s) : s[i] = ","
    THEN LET i == CHOOSE i \in 1..Len(s) :
                     s[i] = "," /\ \A j \in 1..(i - 1) : s[j] # ","
         IN  <<SubSeq(s, 1, i - 1)>> \o Split(SubSeq(s, i + 1, Len(s)))
    ELSE <<s>>

\* Lines 251-253 for the line about to be read.
split_line == Split(Strip(lines[lpos + 1]))
line_key == split_line[1]
line_vals == Tail(split_line)

\* The value_mapper of line 160 raises on a missing or non-integer count;
\* the default of line 241 never raises.
MapperRaises(vs) ==
    /\ value_mapper = "sync"
    /\ IF vs = <<>> THEN TRUE ELSE ~IsIntLiteral(vs[1])

\* value_mapper(vals): line 160 for the sync file, line 241 otherwise.
MapValues(vs) == IF value_mapper = "sync" THEN <<Int_(vs[1])>> ELSE vs

\* retmap[k] = v
DictSet(d, k, v) ==
    [x \in (DOMAIN d) \cup {k} |-> IF x = k THEN v ELSE d[x]]

\* Line 258: the keys of retmap in sorted order.
sorted_keys == SortedKeys(DOMAIN retmap)

InitReader ==
    /\ \E n \in 0..MaxLines :
         \/ value_mapper = "identity" /\ lines \in [1..n -> PlainLines]
         \/ value_mapper = "sync" /\ lines \in [1..n -> SyncLines]
    /\ lpos = 0
    /\ retmap = <<>>              \* line 248
    /\ yielded = <<>>
    /\ rf_pc = "loop"
    /\ buckets = <<>> /\ bpos = 0 /\ key = <<>> /\ count = 0 /\ xr = 0
    /\ ticks = <<>>
    /\ wi_pc = IF value_mapper = "sync" THEN "for" ELSE "idle"   \* line 162
    /\ cfiIdle /\ mainIdle

\* ReadLine that keeps the first value seen for a key.
ReadLine_FirstWins ==
    /\ rf_pc = "loop"
    /\ lpos < Len(lines)
    /\ ~MapperRaises(line_vals)
    /\ retmap' = IF line_key \in DOMAIN retmap THEN retmap
                 ELSE DictSet(retmap, line_key, MapValues(line_vals))
    /\ lpos' = lpos + 1
    /\ UNCHANGED <<lines, value_mapper, yielded, rf_pc>>
    /\ UNCHANGED <<cfiVars, wiVars, diskVars, pfVars, mainVars>>

\* Lines 250-256: one line of the file.
ReadLine ==
    /\ rf_pc = "loop"
    /\ lpos < Len(lines)
    /\ ~MapperRaises(line_vals)
    /\ retmap' = DictSet(retmap, line_key, MapValues(line_vals))
    /\ lpos' = lpos + 1
    /\ UNCHANGED <<lines, value_mapper, yielded, rf_pc>>
    /\ UNCHANGED <<cfiVars, wiVars, diskVars, pfVars, mainVars>>

\* Line 256: value_mapper raises; the error leaves _read_file and the
\* weighted_iter that was asking it for an item.
ReadLineRaises ==
    /\ rf_pc = "loop"
    /\ lpos < Len(lines)
    /\ MapperRaises(line_vals)
    /\ rf_pc' = "raised"
    /\ wi_pc' = "raised"
    /\ UNCHANGED <<lines, value_mapper, lpos, retmap, yielded>>
    /\ UNCHANGED <<buckets, bpos, key, count, xr, ticks>>
    /\ UNCHANGED <<cfiVars, diskVars, pfVars, mainVars>>

\* Lines 250 and 258: the file is at its end; the items are sorted.
EndOfFile ==
    /\ rf_pc = "loop"
    /\ lpos = Len(lines)
    /\ rf_pc' = "yield"
    /\ UNCHANGED <<lines, value_mapper, lpos, retmap, yielded>>
    /\ UNCHANGED <<cfiVars, wiVars, diskVars, pfVars, mainVars>>

\* Lines 258-259: yield the next item; weighted_iter(sync) of line 162
\* receives the items of the sync file.
YieldItem ==
    /\ rf_pc = "yield"
    /\ Len(yielded) < Len(sorted_keys)
    /\ LET k == sorted_keys[Len(yielded) + 1]
           item == <<k>> \o retmap[k]
       IN  /\ yielded' = Append(yielded, item)
           /\ buckets' = IF value_mapper = "sync" THEN Append(buckets, item)
                         ELSE buckets
    /\ UNCHANGED <<lines, value_mapper, lpos, retmap, rf_pc>>
    /\ UNCHANGED <<bpos, key, count, xr, ticks, wi_pc>>
    /\ UNCHANGED <<cfiVars, diskVars, pfVars, mainVars>>

\* Line 258: the sorted items are exhausted; the generator ends.
ReaderDone ==
    /\ rf_pc = "yield"
    /\ Len(yielded) = Len(sorted_keys)
    /\ rf_pc' = "done"
    /\ UNCHANGED <<lines, value_mapper, lpos, retmap, yielded>>
    /\ UNCHANGED <<cfiVars, wiVars, diskVars, pfVars, mainVars>>

----------------------------------------------------------------------------
(* weighted_iter, lines 263-267. *)

ExpanderKeys == {Str(0), Str(1)}

InitExpander ==
    /\ \E n \in 0..MaxBuckets :
          buckets \in [1..n -> ExpanderKeys \X (0..MaxCount)]
    /\ bpos = 0 /\ key = <<>> /\ count = 0 /\ xr = 0
    /\ ticks = <<>>
    /\ wi_pc = "for"
    /\ cfiIdle /\ rfIdle /\ mainIdle

\* NextBucket with the range started at 1.
NextBucket_FromOne ==
    /\ wi_pc = "for"
    /\ bpos < Len(buckets)
    /\ key' = buckets[bpos + 1][1]
    /\ count' = buckets[bpos + 1][2]
    /\ bpos' = bpos + 1
    /\ xr' = 1
    /\ wi_pc' = "inner"
    /\ UNCHANGED <<buckets, ticks>>
    /\ UNCHANGED <<cfiVars, rfVars, diskVars, pfVars, mainVars>>

\* Line 265: the next (key, count) item; line 266 starts its xrange.
NextBucket ==
    /\ wi_pc = "for"
    /\ bpos < Len(buckets)
    /\ key' = buckets[bpos + 1][1]
    /\ count' = buckets[bpos + 1][2]
    /\ bpos' = bpos + 1
    /\ xr' = 0
    /\ wi_pc' = "inner"
    /\ UNCHANGED <<buckets, ticks>>
    /\ UNCHANGED <<cfiVars, rfVars, diskVars, pfVars, mainVars>>

\* Lines 266-267: one more value of xrange(count); yield the key.
YieldKey ==
    /\ wi_pc = "inner"
    /\ xr < count
    /\ ticks' = Append(ticks, key)
    /\ xr' = xr + 1
    /\ UNCHANGED <<buckets, bpos, key, count, wi_pc>>
    /\ UNCHANGED <<cfiVars, rfVars, diskVars, pfVars, mainVars>>

\* Line 266: xrange(count) is exhausted.
RangeExhausted ==
    /\ wi_pc = "inner"
    /\ ~(xr < count)
    /\ wi_pc' = "for"
    /\ UNCHANGED <<buckets, bpos, key, count, xr, ticks>>
    /\ UNCHANGED <<cfiVars, rfVars, diskVars, pfVars, mainVars>>

\* Line 265: `buckets` is exhausted (a list at its end, or _read_file ended).
BucketsExhausted ==
    /\ wi_pc = "for"
    /\ bpos = Len(buckets)
    /\ rf_pc \in {"idle", "done"}
    /\ wi_pc' = "done"
    /\ UNCHANGED <<buckets, bpos, key, count, xr, ticks>>
    /\ UNCHANGED <<cfiVars, rfVars, diskVars, pfVars, mainVars>>

NextExpander ==
    \/ NextBucket
    \/ YieldKey
    \/ RangeExhausted
    \/ BucketsExhausted

SpecExpander == InitExpander /\ [][NextExpander]_vars

\* _read_file on its own and, for the sync file, under weighted_iter as in
\* lines 160-162.
NextReader ==
    \/ ReadLine
    \/ ReadLineRaises
    \/ EndOfFile
    \/ YieldItem
    \/ ReaderDone
    \/ NextBucket
    \/ YieldKey
    \/ RangeExhausted
    \/ BucketsExhausted

SpecReader == InitReader /\ [][NextReader]_vars

----------------------------------------------------------------------------
(* Properties of the Expander and of the Sparse Timeline Reader. *)

\* n copies of k.
RECURSIVE Repeat(_, _)
Repeat(k, n) == IF n <= 0 THEN <<>> ELSE <<k>> \o Repeat(k, n - 1)

\* The concatenation, in order, of count copies of each key.
RECURSIVE Expansion(_)
Expansion(bs) ==
    IF bs = <<>> THEN <<>>
    ELSE Repeat(Head(bs)[1], Head(bs)[2]) \o Expansion(Tail(bs))

RECURSIVE SumCounts(_)
SumCounts(bs) == IF bs = <<>> THEN 0 ELSE Head(bs)[2] + SumCounts(Tail(bs))

\* C7: weighted_iter yields, for each (key, count) pair in input order, count
\* copies of the key: at its end the output is the concatenation of the
\* blocks and its length is the sum of the counts, pairs of count 0 giving
\* nothing; [(0,2),(1,3)] yields [0,0,1,1,1].
C7_Expansion ==
    /\ wi_pc = "inner" =>
         ticks = Expansion(SubSeq(buckets, 1, bpos - 1)) \o Repeat(key, xr)
    /\ wi_pc = "done" =>
         /\ ticks = Expansion(buckets)
         /\ Len(ticks) = SumCounts(buckets)
    /\ (wi_pc = "done" /\ buckets = <<<<Str(0), 2>>, <<Str(1), 3>>>>) =>
         ticks = <<Str(0), Str(0), Str(1), Str(1), Str(1)>>

C7_Witness ==
    /\ wi_pc = "done"
    /\ Len(buckets) = 3
    /\ buckets[2][2] = 0
    /\ buckets[1][1] # buckets[3][1]
    /\ Len(ticks) >= 4

\* The key and the values of the i-th line of the file.
FileKey(i) == Split(Strip(lines[i]))[1]
FileVals(i) == Tail(Split(Strip(lines[i])))
FileKeys == {FileKey(i) : i \in 1..Len(lines)}

\* The last line of the file that has key k.
LastLineOf(k) ==
    CHOOSE i \in 1..Len(lines) :
        FileKey(i) = k /\ \A j \in (i + 1)..Len(lines) : FileKey(j) # k

\* C8: the frame ticks weighted_iter yields from the sync log read by
\* _read_file, taken as the integers the reconciler compares, are
\* non-decreasing when every tick key is a non-negative integer string.
C8_FrameTicksNonDecreasing ==
    (value_mapper = "sync" /\ \A k \in FileKeys : IsIntLiteral(k)) =>
       \A i \in 1..Len(ticks) : \A j \in (i + 1)..Len(ticks) :
          IntOfFloat(Float(ticks[i])) <= IntOfFloat(Float(ticks[j]))

\* C9: _read_file yields exactly one tuple per distinct key of the file, in
\* ascending order of the keys (compared as the strings they are), each with
\* the values of the last line that has its key; the lines "5,a", "1,b",
\* "5,c" yield [(1,b),(5,c)].
C9_ReaderOutput ==
    /\ rf_pc \in {"yield", "done"} =>
         /\ \A i \in 1..Len(yielded) : \A j \in (i + 1)..Len(yielded) :
               StrLess(yielded[i][1], yielded[j][1])
         /\ \A i \in 1..Len(yielded) :
               /\ yielded[i][1] \in FileKeys
               /\ Tail(yielded[i]) =
                     MapValues(FileVals(LastLineOf(yielded[i][1])))
    /\ rf_pc = "done" =>
         /\ {yielded[i][1] : i \in 1..Len(yielded)} = FileKeys
         /\ Len(yielded) = Cardinality(FileKeys)
    /\ (/\ rf_pc = "done"
        /\ lines = <<Line(Str(5), <<"a">>), Line(Str(1), <<"b">>),
                     Line(Str(5), <<"c">>)>>) =>
         yielded = <<<<Str(1), <<"b">>>>, <<Str(5), <<"c">>>>>>

C9_Witness ==
    /\ rf_pc = "done"
    /\ Len(lines) = 3
    /\ Len(yielded) = 2
    /\ FileKey(1) = FileKey(3)
    /\ FileVals(1) # FileVals(3)
    /\ StrLess(FileKey(2), FileKey(1))

\* C10: the ticks of the tuples _read_file yields, taken as the integers the
\* reconciler's float-then-int coercion gives, are strictly ascending for
\* every file of numeric-string keys: no tick occurs twice and none is
\* followed by a smaller one.
C10_TicksStrictlyAscending ==
    (\A k \in FileKeys : IsFloatLiteral(k)) =>
       \A i \in 1..Len(yielded) : \A j \in (i + 1)..Len(yielded) :
          IntOfFloat(Float(yielded[i][1])) < IntOfFloat(Float(yielded[j][1]))

\* C16: _read_file fails on a line with no field, such as an empty line: it
\* never goes on past such a line, and no tuple it yields comes from one
\* (none has the empty key).
C16_EmptyLineFails ==
    /\ \A i \in 1..lpos : Strip(lines[i]) # <<>>
    /\ \A i \in 1..Len(yielded) : yielded[i][1] # <<>>

----------------------------------------------------------------------------
(* Further properties of the Stream Reconciler. *)

\* C17: when a read of the command stream reports exhaustion the reconciler
\* ends at once, silently: nothing more is emitted, so the pending frame
\* (read but not yet emitted) and the frames not yet read are never emitted;
\* the fallback loop after the main loop is not entered.
C17_CmdExhaustionEnds ==
    [][ /\ (/\ cfi_pc = "read"
            /\ read_frame => fpos < Len(frames)
            /\ read_cmd /\ cpos = Len(cmds)) =>
              /\ cfi_pc' = "done"
              /\ out' = out
              /\ Len(out') = fpos' - 1
        /\ cfi_pc # "done"
      ]_vars

C17_Witness ==
    /\ cfi_pc = "done"
    /\ cpos = Len(cmds)
    /\ Len(out) >= 1
    /\ Len(out) = fpos - 1
    /\ fpos < Len(frames)

\* The samples emitted with a command, and those among them for tick t.
Labelled == {i \in 1..Len(out) : out[i][2] # None}
LabelledAt(t) == {i \in Labelled : FrameTick(out[i][1]) = t}

----------------------------------------------------------------------------
(* DataWriteHelper, _process_files, _process_tagdir and main,              *)
(* lines 85-177.  main is modelled from line 96 on, its directory checks   *)
(* passed.  The sessions are those of all tag directories, in the order    *)
(* os.listdir gives them.                                                  *)

\* "{}.jpeg".format(n), line 142.
Jpeg(n) == Str(n) \o <<".", "j", "p", "e", "g">>

SpeedsName == <<"s", "p", "e", "e", "d", "s", ".", "t", "x", "t">>

\* pat.match(name) of lines 121-124, for extn = "jpeg".
PatMatches(name) ==
    /\ Len(name) > 5
    /\ SubSeq(name, Len(name) - 4, Len(name)) = <<".", "j", "p", "e", "g">>
    /\ \A i \in 1..(Len(name) - 5) : IsDigit(name[i])

\* int(m.groups()[0]), line 126.
PatNumber(name) == DecVal(SubSeq(name, 1, Len(name) - 5))

SetMax(S) == CHOOSE x \in S : \A y \in S : y <= x

\* _get_next_usable_integer_index with the count of the matching names.
_get_next_usable_integer_index_Count(names) ==
    Cardinality({n \in names : PatMatches(n)})

\* _get_next_usable_integer_index with the largest number itself.
_get_next_usable_integer_index_Max(names) ==
    SetMax({PatNumber(n) : n \in {m \in names : PatMatches(m)}} \cup {0})

\* _get_next_usable_integer_index, lines 120-127, for the names of a listing.
_get_next_usable_integer_index(names) ==
    SetMax({PatNumber(n) : n \in {m \in names : PatMatches(m)}} \cup {-1}) + 1

\* os.listdir(self._cmd_outdir) at line 139: speeds.txt exists by then.
ListDir(c) == (DOMAIN images[c]) \cup {SpeedsName}

\* The content of an image file that was there before the first run.
OldImage == <<0, 0, 0>>

OldImages(S) == [n \in {Jpeg(i) : i \in S} |-> OldImage]

OldLine(i) == <<Jpeg(i), Float(Str(1)), Float(Str(2))>>

\* The output directory before the first run: nothing; buckets left by
\* earlier use (a full run 0..4, a run with images removed by hand, an image
\* whose line was never written); a bucket path that is a regular file.
PreDisks ==
    { [kind   |-> [c \in Codes |-> "absent"],
       images |-> [c \in Codes |-> <<>>],
       speeds |-> [c \in Codes |-> <<>>]],
      [kind   |-> [c \in Codes |-> "dir"],
       images |-> [c \in Codes |->
                     IF c = 0 THEN OldImages(0..4)
                     ELSE IF c = 1 THEN OldImages({0, 2})
                     ELSE OldImages({1})],
       speeds |-> [c \in Codes |->
                     IF c = 0 THEN [i \in 1..5 |-> OldLine(i - 1)]
                     ELSE IF c = 1 THEN <<OldLine(0), OldLine(2)>>
                     ELSE <<>>]],
      [kind   |-> [c \in Codes |->
                     IF c = 0 THEN "dir" ELSE IF c = 1 THEN "file"
                     ELSE "absent"],
       images |-> [c \in Codes |-> <<>>],
       speeds |-> [c \in Codes |-> <<>>]] }

\* The frame stream of a session with the given tick keys.
FrameStream(ks) == [i \in 1..Len(ks) |-> <<ks[i], i>>]

GoodCmds == <<<<Str(0), "X", Str(1), Str(2)>>, <<Str(1), "Y", Str(3), Str(4)>>>>

\* Sessions: two whose files parse, one whose commands.txt has a speed that
\* is not a number, one whose sync.txt has a tick that is not a number.
SessionKinds ==
    { [frames |-> FrameStream(<<Str(0), Str(0), Str(1)>>), cmds |-> GoodCmds],
      [frames |-> FrameStream(<<Str(1), Str(2)>>), cmds |-> GoodCmds],
      [frames |-> FrameStream(<<Str(0), Str(1)>>),
       cmds   |-> <<<<Str(0), "X", Str(1), Str(2)>>,
                    <<Str(1), "Y", <<"a">>, Str(4)>>>>],
      [frames |-> FrameStream(<<<<"a">>>>), cmds |-> GoodCmds] }

InitMain ==
    /\ \E d \in PreDisks :
          /\ bucket_kind = d.kind
          /\ images = d.images
          /\ speeds_txt = d.speeds
    /\ \E n \in 0..MaxSessions : sessions \in [1..n -> SessionKinds]
    /\ sidx = 0 /\ run = 1 /\ main_pc = "run"
    /\ next_idx = [c \in Codes |-> 0]
    /\ speedsfile = [c \in Codes |-> "none"]
    /\ nopened = 0 /\ nwritten = 0 /\ pf_pc = "idle"
    /\ assigned = [c \in Codes |-> <<>>]
    /\ cfiIdle /\ rfIdle /\ wiIdle

\* Lines 97-117 and 160-162: the next session is given to _process_files,
\* which builds its generators.
StartSession ==
    /\ main_pc = "run"
    /\ pf_pc \in {"idle", "returned"}
    /\ sidx < Len(sessions)
    /\ sidx' = sidx + 1
    /\ frames' = sessions[sidx + 1].frames
    /\ cmds' = sessions[sidx + 1].cmds
    /\ fpos' = 0 /\ cpos' = 0
    /\ frame_time' = NoTime /\ frame' = NoFrame
    /\ cmd_time' = NoTime /\ cmd' = None
    /\ left_speed' = Float(<<"0">>) /\ right_speed' = Float(<<"0">>)
    /\ read_frame' = TRUE /\ read_cmd' = TRUE
    /\ out' = <<>>
    /\ cfi_pc' = "read"
    /\ speedsfile' = [c \in Codes |-> "none"]
    /\ nopened' = 0 /\ nwritten' = 0
    /\ pf_pc' = "open"
    /\ UNCHANGED <<next_idx, assigned, sessions, run, main_pc>>
    /\ UNCHANGED <<rfVars, wiVars, diskVars>>

\* Lines 164-165 and 131-139: the helper of the next command code.
OpenWriter ==
    /\ pf_pc = "open"
    /\ nopened < Cardinality(Codes)
    /\ bucket_kind[nopened] # "file"
    /\ bucket_kind' = [bucket_kind EXCEPT ![nopened] = "dir"]
    /\ speedsfile' = [speedsfile EXCEPT ![nopened] = "open"]
    /\ next_idx' = [next_idx EXCEPT ![nopened] =
                       _get_next_usable_integer_index(ListDir(nopened))]
    /\ nopened' = nopened + 1
    /\ pf_pc' = IF nopened + 1 = Cardinality(Codes) THEN "loop" ELSE "open"
    /\ UNCHANGED <<images, speeds_txt, nwritten, assigned>>
    /\ UNCHANGED <<cfiVars, rfVars, wiVars, mainVars>>

\* Line 137: the bucket path is a regular file, open() raises; line 164 is
\* outside the try, so the error leaves _process_files and main at once.
OpenWriterRaises ==
    /\ pf_pc = "open"
    /\ nopened < Cardinality(Codes)
    /\ bucket_kind[nopened] = "file"
    /\ pf_pc' = "raised"
    /\ main_pc' = "raised"
    /\ UNCHANGED <<next_idx, speedsfile, nopened, nwritten, assigned>>
    /\ UNCHANGED <<sessions, sidx, run>>
    /\ UNCHANGED <<cfiVars, rfVars, wiVars, diskVars>>

\* The sample the loop of line 168 holds, and the code of its bucket.
CurrentSample == out[nwritten + 1]
cmd_code == command_mapping[CurrentSample[2]]      \* line 173

\* WriteImage that stores no image file.
WriteImage_NoFile ==
    /\ pf_pc = "loop"
    /\ nwritten < Len(out)
    /\ next_idx' = [next_idx EXCEPT ![cmd_code] = @ + 1]
    /\ assigned' = [assigned EXCEPT ![cmd_code] = Append(@, next_idx[cmd_code])]
    /\ pf_pc' = "midwrite"
    /\ UNCHANGED <<speedsfile, nopened, nwritten>>
    /\ UNCHANGED <<cfiVars, rfVars, wiVars, diskVars, mainVars>>

\* WriteImage that always uses the helper of code 0.
WriteImage_FirstBucket ==
    /\ pf_pc = "loop"
    /\ nwritten < Len(out)
    /\ next_idx' = [next_idx EXCEPT ![0] = @ + 1]
    /\ images' = [images EXCEPT ![0] =
                     DictSet(@, Jpeg(next_idx[0]),
                             <<run, sidx, CurrentSample[1]>>)]
    /\ assigned' = [assigned EXCEPT ![0] = Append(@, next_idx[0])]
    /\ pf_pc' = "midwrite"
    /\ UNCHANGED <<bucket_kind, speeds_txt, speedsfile, nopened, nwritten>>
    /\ UNCHANGED <<cfiVars, rfVars, wiVars, mainVars>>

\* Lines 171-174 and 142-145: the sample goes to the helper of its code,
\* which takes the next index and stores the image.
WriteImage ==
    /\ pf_pc = "loop"
    /\ nwritten < Len(out)
    /\ next_idx' = [next_idx EXCEPT ![cmd_code] = @ + 1]
    /\ images' = [images EXCEPT ![cmd_code] =
                     DictSet(@, Jpeg(next_idx[cmd_code]),
                             <<run, sidx, CurrentSample[1]>>)]
    /\ assigned' = [assigned EXCEPT ![cmd_code] = Append(@, next_idx[cmd_code])]
    /\ pf_pc' = "midwrite"
    /\ UNCHANGED <<bucket_kind, speeds_txt, speedsfile, nopened, nwritten>>
    /\ UNCHANGED <<cfiVars, rfVars, wiVars, mainVars>>

\* Lines 146-148: the line of the image just stored.
WriteSpeeds ==
    /\ pf_pc = "midwrite"
    /\ speeds_txt' = [speeds_txt EXCEPT ![cmd_code] =
                         Append(@, <<Jpeg(next_idx[cmd_code] - 1),
                                     CurrentSample[3], CurrentSample[4]>>)]
    /\ nwritten' = nwritten + 1
    /\ pf_pc' = "loop"
    /\ UNCHANGED <<bucket_kind, images, next_idx, speedsfile, nopened, assigned>>
    /\ UNCHANGED <<cfiVars, rfVars, wiVars, mainVars>>

\* The process is stopped between lines 145 and 146.
Killed ==
    /\ pf_pc = "midwrite"
    /\ run < MaxRuns
    /\ main_pc' = "killed"
    /\ pf_pc' = "idle"
    /\ speedsfile' = [c \in Codes |-> "none"]
    /\ UNCHANGED <<next_idx, nopened, nwritten, assigned, sessions, sidx, run>>
    /\ UNCHANGED <<cfiVars, rfVars, wiVars, diskVars>>

\* close() of every helper, lines 175-177 and 150-154.
CloseAll == [c \in Codes |-> IF speedsfile[c] = "open" THEN "closed"
                             ELSE speedsfile[c]]

\* Lines 168 and 175-177: the generator has ended; the helpers are closed
\* and _process_files returns.
SessionReturns ==
    /\ pf_pc = "loop"
    /\ cfi_pc = "done"
    /\ nwritten = Len(out)
    /\ speedsfile' = CloseAll
    /\ pf_pc' = "returned"
    /\ UNCHANGED <<next_idx, nopened, nwritten, assigned>>
    /\ UNCHANGED <<cfiVars, rfVars, wiVars, diskVars, mainVars>>

\* SessionRaises that skips the failed session and goes on.
SessionRaises_Skips ==
    /\ pf_pc = "loop"
    /\ cfi_pc = "raised"
    /\ speedsfile' = CloseAll
    /\ pf_pc' = "returned"
    /\ UNCHANGED <<next_idx, nopened, nwritten, assigned>>
    /\ UNCHANGED <<cfiVars, rfVars, wiVars, diskVars, mainVars>>

\* Lines 168 and 175-177: the generator raised; the helpers are closed and
\* the error leaves _process_files, _process_tagdir and main, none of which
\* catches it.
SessionRaises ==
    /\ pf_pc = "loop"
    /\ cfi_pc = "raised"
    /\ speedsfile' = CloseAll
    /\ pf_pc' = "raised"
    /\ main_pc' = "raised"
    /\ UNCHANGED <<next_idx, nopened, nwritten, assigned>>
    /\ UNCHANGED <<sessions, sidx, run>>
    /\ UNCHANGED <<cfiVars, rfVars, wiVars, diskVars>>

\* Line 104: every session was processed.
MainReturns ==
    /\ main_pc = "run"
    /\ pf_pc \in {"idle", "returned"}
    /\ sidx = Len(sessions)
    /\ main_pc' = "returned0"
    /\ UNCHANGED <<sessions, sidx, run>>
    /\ UNCHANGED <<cfiVars, rfVars, wiVars, diskVars, pfVars>>

\* The program is run again on the same directories.
NewRun ==
    /\ main_pc \in {"returned0", "raised", "killed"}
    /\ run < MaxRuns
    /\ run' = run + 1
    /\ sidx' = 0
    /\ main_pc' = "run"
    /\ pf_pc' = "idle"
    /\ speedsfile' = [c \in Codes |-> "none"]
    /\ nopened' = 0 /\ nwritten' = 0
    /\ UNCHANGED <<next_idx, assigned, sessions>>
    /\ UNCHANGED <<cfiVars, rfVars, wiVars, diskVars>>

\* Line 168: the loop asks the generator for its next sample once the one
\* it holds is written.
PullSample ==
    /\ pf_pc = "loop"
    /\ nwritten = Len(out)
    /\ (NextReconciler \/ ReadRaises)

NextMain ==
    \/ StartSession
    \/ OpenWriter
    \/ OpenWriterRaises
    \/ PullSample
    \/ WriteImage
    \/ WriteSpeeds
    \/ Killed
    \/ SessionReturns
    \/ SessionRaises
    \/ MainReturns
    \/ NewRun

SpecMain == InitMain /\ [][NextMain]_vars

----------------------------------------------------------------------------
(* Properties of the buckets.                                              *)

\* No bucket holds an index above this one.
MaxIndex == 5 + MaxRuns * MaxSessions * MaxFrames

\* The numbers n with an image n.jpeg in bucket c.
ExistingIndices(c) == {i \in 0..MaxIndex : Jpeg(i) \in DOMAIN images[c]}

\* max(existing n) + 1, and 0 when there are none.
ResumeIndex(c) ==
    IF ExistingIndices(c) = {} THEN 0 ELSE SetMax(ExistingIndices(c)) + 1

OpenStep == pf_pc = "open" /\ nopened' = nopened + 1
ImageStep == pf_pc = "loop" /\ pf_pc' = "midwrite"
SpeedsStep == pf_pc = "midwrite" /\ pf_pc' = "loop"

\* C11: a helper opened on a directory that holds images n.jpeg starts at
\* max(n) + 1 (0 when there are none, max + 1 also when indices are
\* missing); a write creates the file of that name, and no image file that
\* exists is removed or given other content.
C11_Resumption ==
    [][ /\ OpenStep => next_idx'[nopened] = ResumeIndex(nopened)
        /\ ImageStep =>
              /\ next_idx[cmd_code] = ResumeIndex(cmd_code)
              /\ Jpeg(next_idx[cmd_code]) \notin DOMAIN images[cmd_code]
              /\ DOMAIN images'[cmd_code] =
                    (DOMAIN images[cmd_code]) \cup {Jpeg(next_idx[cmd_code])}
        /\ \A c \in Codes : \A n \in DOMAIN images[c] :
              /\ n \in DOMAIN images'[c]
              /\ images'[c][n] = images[c][n]
      ]_vars

\* Bucket 0 held 0.jpeg .. 4.jpeg, and a write has created 5.jpeg beside them.
C11_Witness ==
    /\ \A i \in 0..5 : Jpeg(i) \in DOMAIN images[0]
    /\ \A i \in 0..4 : images[0][Jpeg(i)] = OldImage
    /\ images[0][Jpeg(5)] # OldImage
    /\ ExistingIndices(1) = {0, 2, 3}

StrictlyIncreasing(q) == \A i, j \in DOMAIN q : i < j => q[i] < q[j]

\* C12: in each bucket the indices assigned over all writes, sessions and
\* runs are strictly increasing: a write takes the helper's index and leaves
\* it one higher, a helper that is opened starts above every index stored,
\* and no index is assigned twice.
C12_IndicesIncrease ==
    [][ /\ \A c \in Codes : StrictlyIncreasing(assigned'[c])
        /\ ImageStep =>
              /\ assigned'[cmd_code] =
                    Append(assigned[cmd_code], next_idx[cmd_code])
              /\ next_idx'[cmd_code] = next_idx[cmd_code] + 1
        /\ OpenStep =>
              \A i \in ExistingIndices(nopened) : next_idx'[nopened] > i
      ]_vars

\* A bucket was written in more than one session and in both runs.
C12_Witness ==
    /\ run = MaxRuns
    /\ \E c \in Codes :
          /\ Len(assigned[c]) >= 3
          /\ \E n, m \in DOMAIN images[c] :
                /\ images[c][n][1] = 1
                /\ images[c][m][1] = MaxRuns
                /\ images[c][m][2] = 2

\* C13: every line of a bucket's speeds.txt names an image file stored in
\* that bucket, and no file name is on two lines, also in a run started
\* after an earlier run stopped between storing an image and its line.
C13_LinesHaveImages ==
    \A c \in Codes :
        /\ \A i \in DOMAIN speeds_txt[c] :
              speeds_txt[c][i][1] \in DOMAIN images[c]
        /\ \A i, j \in DOMAIN speeds_txt[c] :
              i # j => speeds_txt[c][i][1] # speeds_txt[c][j][1]

LineNames(c) == {speeds_txt[c][i][1] : i \in DOMAIN speeds_txt[c]}

\* A bucket holds an image of the first run that has no line, and a line
\* written in the second run.
C13_Witness ==
    \E c \in Codes :
        /\ \E n \in DOMAIN images[c] :
              images[c][n][1] = 1 /\ n \notin LineNames(c)
        /\ \E n \in LineNames(c) : images[c][n][1] = MaxRuns

\* C14: a sample is written to the bucket of its command code and to no
\* other: the image and then the line are added there, and the index, the
\* images and the speeds.txt of every other bucket stay as they are.
C14_OneBucket ==
    [][ /\ ImageStep =>
              /\ Jpeg(next_idx[cmd_code]) \in DOMAIN images'[cmd_code]
              /\ images'[cmd_code][Jpeg(next_idx[cmd_code])] =
                    <<run, sidx, CurrentSample[1]>>
              /\ \A c \in Codes \ {cmd_code} :
                    /\ next_idx'[c] = next_idx[c]
                    /\ images'[c] = images[c]
              /\ speeds_txt' = speeds_txt
        /\ SpeedsStep =>
              /\ Len(speeds_txt'[cmd_code]) = Len(speeds_txt[cmd_code]) + 1
              /\ \A c \in Codes \ {cmd_code} : speeds_txt'[c] = speeds_txt[c]
              /\ images' = images /\ next_idx' = next_idx
      ]_vars

\* In one session a sample was written to each of the three buckets.
C14_Witness ==
    /\ pf_pc = "loop"
    /\ nwritten = 3
    /\ \A c \in Codes : \E n \in DOMAIN images[c] :
          images[c][n] # OldImage /\ n \in LineNames(c)

\* C15: when _process_files has returned or raised, no speeds.txt handle it
\* opened is still open.
C15_HandlesClosed ==
    pf_pc \in {"returned", "raised"} =>
        \A c \in Codes : speedsfile[c] # "open"

IsPrefix(p, q) == Len(p) <= Len(q) /\ SubSeq(q, 1, Len(p)) = p

\* C19: an error raised while a session's lines are converted leaves main:
\* the run starts no further session and does not return 0, and the images
\* and lines written before the error stay.
C19_ErrorLeavesMain ==
    [][ /\ (cfi_pc = "raised" /\ pf_pc = "loop") =>
              /\ main_pc' = "raised"
              /\ pf_pc' = "raised"
              /\ sidx' = sidx
        /\ main_pc = "raised" =>
              /\ main_pc' # "returned0"
              /\ sidx' # sidx + 1
              /\ run' = run => (sidx' = sidx /\ main_pc' = "raised")
        /\ \A c \in Codes :
              /\ \A n \in DOMAIN images[c] :
                    n \in DOMAIN images'[c] /\ images'[c][n] = images[c][n]
              /\ IsPrefix(speeds_txt[c], speeds_txt'[c])
      ]_vars

\* The second of three sessions raised after one of its samples was
\* written; the first session's files are there.
C19_Witness ==
    /\ main_pc = "raised" /\ cfi_pc = "raised"
    /\ Len(sessions) = 3 /\ sidx = 2
    /\ nwritten >= 1
    /\ \E c \in Codes : \E n \in DOMAIN images[c] : images[c][n][2] = 1
    /\ \E c \in Codes : \E n \in LineNames(c) : images[c][n][2] = 2

====
